---- MODULE Spec2Model ----
(***************************************************************************)
(* A model of mpris.py, a command line client for MPRIS2 media players.    *)
(*                                                                         *)
(* One behaviour of Spec is one invocation of the script: the parsed       *)
(* command line and the names on the session bus are chosen in Init, and   *)
(* every blocking D-Bus call is one action whose outcome (a reply or a     *)
(* DBusException) the environment chooses.  SpecFmt applies the pure       *)
(* function track_length_string to inputs drawn from a bounded set.        *)
(*                                                                         *)
(* Numbers that outgrow TLC's 32 bit integers (track lengths are 64 bit    *)
(* microsecond counts) are sequences of base-1000 limbs, most significant  *)
(* limb first, with no leading zero limb; zero is the empty sequence.      *)
(***************************************************************************)
EXTENDS Integers, Sequences, FiniteSets, TLC

VARIABLES
    args,        \* the argparse namespace: command, args, service, verbose, commands
    bus,         \* the names bus.list_names() returns, in the transport's order
    pc,          \* position of the script
    service,     \* the MprisService object: bound, name, playlists, tracklist
    status,      \* PlaybackStatus as read by the status command
    meta,        \* Metadata as read by the status command
    out,         \* the lines printed on standard output
    calls,       \* the remote calls issued so far, each with its outcome
    lookups,     \* the number of get_services() calls
    uncaught,    \* the exception that ended the script with a traceback
    exitStatus,  \* the process exit status, -1 while the script runs
    length,      \* SpecFmt: the argument of track_length_string
    result       \* SpecFmt: the string track_length_string returned

vars == <<args, bus, pc, service, status, meta, out, calls, lookups,
          uncaught, exitStatus, length, result>>

\* ------------------------------------------------------------------------
\* Arbitrary precision naturals
\* ------------------------------------------------------------------------

RECURSIVE Norm(_)
\* Strip leading zero limbs.
Norm(n) == IF n = <<>> THEN <<>>
           ELSE IF Head(n) = 0 THEN Norm(Tail(n)) ELSE n

RECURSIVE IntToBig(_)
\* The limb sequence of a small natural.
IntToBig(k) == IF k = 0 THEN <<>>
               ELSE Append(IntToBig(k \div 1000), k % 1000)

\* Floor division and remainder of the natural n by the small natural d
\* (d <= 10^6 keeps every intermediate below 2^31): schoolbook long division.
BigDivMod(n, d) ==
    LET F[i \in 0..Len(n)] ==
            IF i = 0 THEN [q |-> <<>>, r |-> 0]
            ELSE LET cur == F[i - 1].r * 1000 + n[i]
                 IN  [q |-> Append(F[i - 1].q, cur \div d), r |-> cur % d]
    IN  [q |-> Norm(F[Len(n)].q), r |-> F[Len(n)].r]

RECURSIVE BigSucc(_)
\* n + 1.
BigSucc(n) ==
    IF n = <<>> THEN <<1>>
    ELSE LET last == n[Len(n)]
             init == SubSeq(n, 1, Len(n) - 1)
         IN  IF last + 1 < 1000 THEN Append(init, last + 1)
             ELSE Append(BigSucc(init), 0)

RECURSIVE BitLength(_)
\* The number of binary digits of n (0 for zero).
BitLength(n) == IF n = <<>> THEN 0 ELSE 1 + BitLength(BigDivMod(n, 2).q)

RECURSIVE Pow2(_)
Pow2(k) == IF k = 0 THEN 1 ELSE 2 * Pow2(k - 1)

\* ------------------------------------------------------------------------
\* Python arithmetic used by track_length_string
\* ------------------------------------------------------------------------

\* The significand width of a Python float (IEEE 754 binary64).
MantBits == 53

\* Python 3's int / int is true division: the quotient n/d correctly rounded
\* (to nearest, ties to even) to a float.  With q = n div d >= 1 the float
\* keeps f = MantBits - BitLength(q) binary digits of the fraction (n mod d)/d,
\* so the float is q + m / 2^f with m the fraction times 2^f rounded to an
\* integer, and it reaches the next integer q + 1 exactly when m = 2^f, that
\* is when 2^(f+1) * (d - r) <= d (the tie goes to the even m = 2^f).
\* Written for q < 2^(MantBits-1), where f >= 1; for f + 1 > 30 the test is
\* false because d < 2^30.
TrueDivReachesNextInt(q, r, d) ==
    LET f == MantBits - (IF q = <<>> THEN 1 ELSE BitLength(q))
    IN  /\ f + 1 <= 30
        /\ Pow2(f + 1) <= d
        /\ d - r <= d \div Pow2(f + 1)

\* int(n / d): truncation of the float quotient, [q = the integer, r = the
\* remainder n mod d, up = whether rounding carried the float to q + 1].
IntOfTrueDiv(n, d) ==
    LET dm == BigDivMod(n, d)
        up == TrueDivReachesNextInt(dm.q, dm.r, d)
    IN  [q |-> IF up THEN BigSucc(dm.q) ELSE dm.q, r |-> dm.r, up |-> up]

\* ------------------------------------------------------------------------
\* printf-style formatting
\* ------------------------------------------------------------------------

Digit(k) == <<"0", "1", "2", "3", "4", "5", "6", "7", "8", "9">>[k + 1]

RECURSIVE Decimal(_)
\* "%d" of a small natural.
Decimal(k) == IF k < 10 THEN Digit(k) ELSE Decimal(k \div 10) \o Digit(k % 10)

\* "%d" of a small integer.
FmtD(k) == IF k < 0 THEN "-" \o Decimal(-k) ELSE Decimal(k)

\* "%02d" of a small integer: zero padding counts the sign.
Fmt02d(k) == IF k < 0 THEN FmtD(k)
             ELSE IF k < 10 THEN "0" \o Decimal(k) ELSE Decimal(k)

\* "%03d" of a small natural.
Fmt03d(k) == IF k < 10 THEN "00" \o Decimal(k)
             ELSE IF k < 100 THEN "0" \o Decimal(k) ELSE Decimal(k)

RECURSIVE BigTail(_)
BigTail(n) == IF n = <<>> THEN "" ELSE Fmt03d(Head(n)) \o BigTail(Tail(n))

\* "%d" of a natural given by its limbs.
FmtBig(n) == IF n = <<>> THEN "0" ELSE Decimal(Head(n)) \o BigTail(Tail(n))

\* ------------------------------------------------------------------------
\* track_length_string
\* ------------------------------------------------------------------------

\* us = length % 1000
\* ms = int((length / 1000) % 1000)    (float % int is exact, so this is the
\*                                      integer part of the float, mod 1000)
\* s = int(length / 1000000)
\* minutes = int(s / 60)
\* s = s - minutes * 60                (= s mod 60, less 60 if s / 60 rounded
\*                                      up to the next integer)
track_length_string(len) ==
    LET us      == BigDivMod(len, 1000).r
        ms      == BigDivMod(IntOfTrueDiv(len, 1000).q, 1000).r
        s       == IntOfTrueDiv(len, 1000000).q
        mdiv    == IntOfTrueDiv(s, 60)
        minutes == mdiv.q
        sec     == mdiv.r - (IF mdiv.up THEN 60 ELSE 0)
    IN  IF us # 0
        THEN FmtBig(minutes) \o ":" \o Fmt02d(sec) \o "." \o Fmt03d(ms) \o Fmt03d(us)
        ELSE IF ms # 0
        THEN FmtBig(minutes) \o ":" \o Fmt02d(sec) \o "." \o Fmt03d(ms)
        ELSE FmtBig(minutes) \o ":" \o Fmt02d(sec)

\* ------------------------------------------------------------------------
\* Names, services and the command line
\* ------------------------------------------------------------------------

\* Bus names and D-Bus error names are sequences of their dot-separated parts.
mpris_base == <<"org", "mpris", "MediaPlayer2">>

StartsWith(s, p) == Len(s) >= Len(p) /\ SubSeq(s, 1, Len(p)) = p

EndsWith(s, p) == Len(s) >= Len(p) /\ SubSeq(s, Len(s) - Len(p) + 1, Len(s)) = p

RECURSIVE Dotted(_)
\* The name as the string the script prints.
Dotted(name) == IF name = <<>> THEN ""
                ELSE IF Len(name) = 1 THEN name[1]
                ELSE name[1] \o "." \o Dotted(Tail(name))

\* The names the session bus may hold: the bus daemon and two players.
BusNames == { <<"org", "freedesktop", "DBus">>,
              mpris_base \o <<"vlc">>,
              mpris_base \o <<"mpv">> }

\* The longest list of bus names considered.
MaxNames == 2

\* Lists of distinct registered names, in any order.
BusLists ==
    { l \in UNION { [1..k -> BusNames] : k \in 0..MaxNames } :
        \A i, j \in DOMAIN l : i # j => l[i] # l[j] }

get_services(names) == SelectSeq(names, LAMBDA s : StartsWith(s, mpris_base))

\* Python's list[i]: IndexError outside -n..n-1, counting from the end for i < 0.
GetItemWrapping(list, i) ==
    IF list = <<>> THEN [raised |-> TRUE, value |-> <<>>]
    ELSE [raised |-> FALSE, value |-> list[(i % Len(list)) + 1]]

GetItem(list, i) ==
    IF i >= 0 /\ i < Len(list) THEN [raised |-> FALSE, value |-> list[i + 1]]
    ELSE IF i < 0 /\ -i <= Len(list)
         THEN [raised |-> FALSE, value |-> list[Len(list) + i + 1]]
         ELSE [raised |-> TRUE, value |-> <<>>]

KnownCommands == {"status", "toggle", "stop", "play", "pause", "open"}

\* The command words tried: the six commands, "services", and a word that is none.
Commands == KnownCommands \cup {"services", "rewind"}

ArgLists == { <<>>, <<"file:///a.ogg">> }

ServiceIndices == (-(MaxNames + 1))..MaxNames

Namespaces == [command : Commands, args : ArgLists, service : ServiceIndices,
               verbose : BOOLEAN, commands : BOOLEAN]

\* ------------------------------------------------------------------------
\* The remote side
\* ------------------------------------------------------------------------

ErrUnknownMethod == <<"org", "freedesktop", "DBus", "Error", "UnknownMethod">>
ErrServiceUnknown == <<"org", "freedesktop", "DBus", "Error", "ServiceUnknown">>
ErrNoReply == <<"org", "freedesktop", "DBus", "Error", "NoReply">>

\* The DBusExceptions a call may raise; <<>> stands for a call that returned.
DBusErrors == {ErrUnknownMethod, ErrServiceUnknown, ErrNoReply}

Replies == {<<>>} \cup DBusErrors

\* Probes are recorded with one error name: nothing reads which one it was.
ProbeReplies == {<<>>, ErrUnknownMethod}

ProbeOps == {"Get PlaylistCount", "Get CanEditTracks"}

PlayerOps == ProbeOps \cup {"Get PlaybackStatus", "Get Metadata", "Get Position",
                            "PlayPause", "Stop", "Play", "Pause", "OpenUri"}

\* One blocking call on the bus: the log grows by the call and its outcome.
RemoteCallRetried(log, op, err) ==
    IF err = <<>> THEN Append(log, [op |-> op, err |-> err])
    ELSE log \o <<[op |-> op, err |-> err], [op |-> op, err |-> err]>>

RemoteCall(log, op, err) == Append(log, [op |-> op, err |-> err])

StatusValues == {"Playing", "Paused", "Stopped"}

None == [has |-> FALSE, v |-> <<>>]

Some(x) == [has |-> TRUE, v |-> x]

\* Positions in microseconds: 0, 1.5 ms, and the least value whose quotient
\* by 10^6 a float rounds up.
Micros == { <<>>, <<1, 500>>, <<17, 179, 869, 184, 999, 999>> }

MetaValues ==
    [length : {None, Some(<<>>), Some(<<205, 0, 0>>)},
     title  : {None, Some(<<"Song">>)},
     url    : {None, Some(<<"file:///a.ogg">>)},
     artist : {None, Some(<<>>), Some(<<"A", "B", "C">>)}]

NoMeta == [length |-> None, title |-> None, url |-> None, artist |-> None]

NoService == [bound |-> FALSE, name |-> <<>>, playlists |-> FALSE, tracklist |-> FALSE]

\* ------------------------------------------------------------------------
\* Printed lines
\* ------------------------------------------------------------------------

PyBool(b) == IF b THEN "True" ELSE "False"

Catalogue ==
    << "The following commands are supported:",
       "\tstatus\tshow player status",
       "\ttoggle\ttoggle play/pause state",
       "\tstop\tstop playback",
       "\tplay\tstart playback",
       "\tpause\tpause playback",
       "\topen URI\topen media from URI and playback" >>

RECURSIVE ServiceLines(_, _)
ServiceLines(list, i) ==
    IF list = <<>> THEN <<>>
    ELSE <<"  " \o FmtD(i) \o ": " \o Dotted(Head(list))>>
         \o ServiceLines(Tail(list), i + 1)

SelectionError(i) == "MPRIS2 service no. " \o FmtD(i) \o " not found."

VerboseLines(svc) ==
    << "selected service " \o Dotted(svc.name),
       "  playlists support:\t" \o PyBool(svc.playlists),
       "  tracklist support:\t" \o PyBool(svc.tracklist) >>

UnsupportedOpen(svc) ==
    "Error: Service " \o Dotted(svc.name)
        \o " does not support opening URIs via MPRIS2."

UnexpectedError(err) == "Unexpected error: " \o Dotted(err)

UnknownCommand(word) == "unknown command: " \o word

Announcement(cmd) ==
    CASE cmd = "toggle" -> "toggling play/pause state"
      [] cmd = "stop"   -> "stopping playback"
      [] cmd = "play"   -> "starting playback"
      [] cmd = "pause"  -> "pausing playback"

Method(cmd) ==
    CASE cmd = "toggle" -> "PlayPause"
      [] cmd = "stop"   -> "Stop"
      [] cmd = "play"   -> "Play"
      [] cmd = "pause"  -> "Pause"

RECURSIVE JoinArtists(_)
\* artists.popleft(), then ', ' and the next one while any is left.
JoinArtists(list) == IF Len(list) = 1 THEN list[1]
                     ELSE list[1] \o ", " \o JoinArtists(Tail(list))

\* str() of an optional text value.
StrOpt(o) == IF o.has THEN o.v[1] ELSE "None"

LenStr(m, pos) ==
    IF m.length.has /\ m.length.v # <<>>
    THEN "(" \o track_length_string(pos) \o "/"
             \o track_length_string(m.length.v) \o ")"
    ELSE ""

Title(m) == IF m.title.has THEN m.title.v[1] ELSE StrOpt(m.url)

Artist(m) == IF m.artist.has /\ m.artist.v # <<>>
             THEN JoinArtists(m.artist.v) ELSE "[Unknown]"

StatusLine(st, m, pos) ==
    st \o ": \"" \o Title(m) \o "\" by " \o Artist(m) \o " " \o LenStr(m, pos)

RawListing(m) ==
    <<"Raw metadata listing:">>
    \o (IF m.length.has
        THEN <<"  mpris:length\t= " \o FmtBig(m.length.v)>> ELSE <<>>)
    \o (IF m.title.has THEN <<"  xesam:title\t= " \o m.title.v[1]>> ELSE <<>>)
    \o (IF m.url.has THEN <<"  xesam:url\t= " \o m.url.v[1]>> ELSE <<>>)
    \o (IF m.artist.has
        THEN <<"  xesam:artist\t= [" \o
               (IF m.artist.v = <<>> THEN "" ELSE JoinArtists(m.artist.v))
               \o "]">>
        ELSE <<>>)

\* ------------------------------------------------------------------------
\* The script
\* ------------------------------------------------------------------------

Init ==
    /\ args \in Namespaces
    /\ bus \in BusLists
    /\ pc = "start"
    /\ service = NoService
    /\ status = ""
    /\ meta = NoMeta
    /\ out = <<>>
    /\ calls = <<>>
    /\ lookups = 0
    /\ uncaught = "None"
    /\ exitStatus = -1
    /\ length = <<>>
    /\ result = ""

\* exit(code), or falling off the end of the script (code 0).
Exit(code) ==
    /\ pc' = "done"
    /\ exitStatus' = code
    /\ uncaught' = "None"

\* An exception no handler catches: traceback on stderr, exit status 1.
Raise(exc) ==
    /\ pc' = "done"
    /\ exitStatus' = 1
    /\ uncaught' = exc

\* if (args.commands)
CommandsRequestedNever(a) == FALSE

CommandsRequested(a) == a.commands

\* status == 'Playing' or status == 'Paused'
HasTrackInfoAlways(st) == TRUE

HasTrackInfo(st) == st = "Playing" \/ st = "Paused"

\* ex.get_dbus_name().endswith('UnknownMethod')
IsUnknownMethodByPrefix(err) == StartsWith(err, <<"UnknownMethod">>)

IsUnknownMethod(err) == EndsWith(err, <<"UnknownMethod">>)

\* --commands: print the catalogue and exit(0).
ListCommands ==
    /\ pc = "start"
    /\ CommandsRequested(args)
    /\ out' = out \o Catalogue
    /\ Exit(0)
    /\ UNCHANGED <<args, bus, service, status, meta, calls, lookups, length, result>>

\* The "services" command: list the services with their indices and exit(0).
ListServices ==
    /\ pc = "start"
    /\ ~CommandsRequested(args)
    /\ args.command = "services"
    /\ lookups' = lookups + 1
    /\ \E err \in Replies :
        /\ calls' = RemoteCall(calls, "ListNames", err)
        /\ IF err = <<>>
           THEN /\ out' = out \o ServiceLines(get_services(bus), 0)
                /\ Exit(0)
           ELSE /\ out' = out
                /\ Raise("DBusException")
    /\ UNCHANGED <<args, bus, service, status, meta, length, result>>

\* s = get_services()[args.service], with the IndexError handler.
SelectService ==
    /\ pc = "start"
    /\ ~CommandsRequested(args)
    /\ args.command # "services"
    /\ lookups' = lookups + 1
    /\ \E err \in Replies :
        /\ calls' = RemoteCall(calls, "ListNames", err)
        /\ IF err # <<>>
           THEN /\ Raise("DBusException")
                /\ UNCHANGED <<out, service>>
           ELSE LET item == GetItem(get_services(bus), args.service)
                IN  IF item.raised
                    THEN /\ out' = Append(out, SelectionError(args.service))
                         /\ Exit(1)
                         /\ UNCHANGED service
                    ELSE /\ service' = [service EXCEPT !.name = item.value]
                         /\ pc' = "bind"
                         /\ UNCHANGED <<out, uncaught, exitStatus>>
    /\ UNCHANGED <<args, bus, status, meta, length, result>>

\* MprisService.__init__ up to the probes: bus.get_object resolves the name's
\* owner on the bus, then the four interface accessors are made locally.
Bind ==
    /\ pc = "bind"
    /\ \E err \in Replies :
        /\ calls' = RemoteCall(calls, "GetNameOwner", err)
        /\ IF err = <<>>
           THEN /\ service' = [service EXCEPT !.bound = TRUE,
                                              !.playlists = TRUE,
                                              !.tracklist = TRUE]
                /\ pc' = "probe_playlists"
                /\ UNCHANGED <<uncaught, exitStatus>>
           ELSE /\ Raise("DBusException")
                /\ UNCHANGED service
    /\ UNCHANGED <<args, bus, status, meta, out, lookups, length, result>>

\* try: self.get_playlists_property('PlaylistCount')
\* except DBusException: self.playlists = None
ProbePlaylistsAborting ==
    /\ pc = "probe_playlists"
    /\ \E err \in ProbeReplies :
        /\ calls' = RemoteCall(calls, "Get PlaylistCount", err)
        /\ IF err = <<>>
           THEN /\ pc' = "probe_tracklist"
                /\ UNCHANGED <<service, uncaught, exitStatus>>
           ELSE /\ Raise("DBusException")
                /\ UNCHANGED service
    /\ UNCHANGED <<args, bus, status, meta, out, lookups, length, result>>

ProbePlaylists ==
    /\ pc = "probe_playlists"
    /\ \E err \in ProbeReplies :
        /\ calls' = RemoteCall(calls, "Get PlaylistCount", err)
        /\ service' = IF err = <<>> THEN service
                      ELSE [service EXCEPT !.playlists = FALSE]
    /\ pc' = "probe_tracklist"
    /\ UNCHANGED <<args, bus, status, meta, out, lookups, uncaught, exitStatus,
                   length, result>>

\* try: self.get_tracklist_property('CanEditTracks')
\* except DBusException: self.tracklist = None
\* and, back in the script, the verbose report on the selected service.
ProbeTracklist ==
    /\ pc = "probe_tracklist"
    /\ \E err \in ProbeReplies :
        /\ calls' = RemoteCall(calls, "Get CanEditTracks", err)
        /\ service' = IF err = <<>> THEN service
                      ELSE [service EXCEPT !.tracklist = FALSE]
    /\ out' = IF args.verbose THEN out \o VerboseLines(service') ELSE out
    /\ pc' = "dispatch"
    /\ UNCHANGED <<args, bus, status, meta, lookups, uncaught, exitStatus,
                   length, result>>

\* status: read PlaybackStatus; print it unless the player plays or is paused.
StatusCommand ==
    /\ pc = "dispatch"
    /\ args.command = "status"
    /\ \E err \in Replies :
        /\ calls' = RemoteCall(calls, "Get PlaybackStatus", err)
        /\ IF err # <<>>
           THEN /\ Raise("DBusException")
                /\ UNCHANGED <<status, out>>
           ELSE \E st \in StatusValues :
                /\ status' = st
                /\ IF HasTrackInfo(st)
                   THEN /\ pc' = "status_meta"
                        /\ UNCHANGED <<out, uncaught, exitStatus>>
                   ELSE /\ out' = Append(out, st)
                        /\ Exit(0)
    /\ UNCHANGED <<args, bus, service, meta, lookups, length, result>>

\* meta = service.get_player_property('Metadata')
StatusMetadata ==
    /\ pc = "status_meta"
    /\ \E err \in Replies :
        /\ calls' = RemoteCall(calls, "Get Metadata", err)
        /\ IF err # <<>>
           THEN /\ Raise("DBusException")
                /\ UNCHANGED meta
           ELSE /\ meta' \in MetaValues
                /\ pc' = "status_pos"
                /\ UNCHANGED <<uncaught, exitStatus>>
    /\ UNCHANGED <<args, bus, service, status, out, lookups, length, result>>

\* pos = service.get_player_property('Position'), then the status line and,
\* if verbose, the raw metadata listing.
StatusPosition ==
    /\ pc = "status_pos"
    /\ \E err \in Replies :
        /\ calls' = RemoteCall(calls, "Get Position", err)
        /\ IF err # <<>>
           THEN /\ Raise("DBusException")
                /\ UNCHANGED out
           ELSE \E pos \in Micros :
                /\ out' = Append(out, StatusLine(status, meta, pos))
                          \o (IF args.verbose THEN RawListing(meta) ELSE <<>>)
                /\ Exit(0)
    /\ UNCHANGED <<args, bus, service, status, meta, lookups, length, result>>

\* toggle, stop, play, pause: announce, then call the player method.
PlaybackCommand ==
    /\ pc = "dispatch"
    /\ args.command \in {"toggle", "stop", "play", "pause"}
    /\ out' = Append(out, Announcement(args.command))
    /\ \E err \in Replies :
        /\ calls' = RemoteCall(calls, Method(args.command), err)
        /\ IF err = <<>> THEN Exit(0) ELSE Raise("DBusException")
    /\ UNCHANGED <<args, bus, service, status, meta, lookups, length, result>>

\* open: announce and call OpenUri(args.args[0]); a DBusException is reported
\* with one of two messages and exit(1).
OpenCommand ==
    /\ pc = "dispatch"
    /\ args.command = "open"
    /\ IF args.args = <<>>
       THEN /\ Raise("IndexError")
            /\ UNCHANGED <<out, calls>>
       ELSE \E err \in Replies :
            /\ calls' = RemoteCall(calls, "OpenUri", err)
            /\ IF err = <<>>
               THEN /\ out' = Append(out, "opening " \o args.args[1])
                    /\ Exit(0)
               ELSE /\ out' = out \o
                        << "opening " \o args.args[1],
                           IF IsUnknownMethod(err) THEN UnsupportedOpen(service)
                           ELSE UnexpectedError(err) >>
                    /\ Exit(1)
    /\ UNCHANGED <<args, bus, service, status, meta, lookups, length, result>>

\* Any other command word.
RejectCommandQuietly ==
    /\ pc = "dispatch"
    /\ args.command \notin KnownCommands
    /\ out' = Append(out, UnknownCommand(args.command))
    /\ Exit(0)
    /\ UNCHANGED <<args, bus, service, status, meta, calls, lookups, length, result>>

RejectCommand ==
    /\ pc = "dispatch"
    /\ args.command \notin KnownCommands
    /\ out' = Append(out, UnknownCommand(args.command))
    /\ Exit(1)
    /\ UNCHANGED <<args, bus, service, status, meta, calls, lookups, length, result>>

Next ==
    \/ ListCommands
    \/ ListServices
    \/ SelectService
    \/ Bind
    \/ ProbePlaylists
    \/ ProbeTracklist
    \/ StatusCommand
    \/ StatusMetadata
    \/ StatusPosition
    \/ PlaybackCommand
    \/ OpenCommand
    \/ RejectCommand

Spec == Init /\ [][Next]_vars

\* ------------------------------------------------------------------------
\* track_length_string on its own
\* ------------------------------------------------------------------------

\* Whole seconds 0..MaxSeconds are tried, and these larger counts.
MaxSeconds == 61

SecondsTried ==
    { IntToBig(k) : k \in 0..MaxSeconds }
    \cup { <<3, 599>>, <<3, 600>>, <<86, 399>>,
           <<17, 179, 869, 183>>, <<17, 179, 869, 184>>,
           <<17, 592, 186, 44>>, <<17, 592, 186, 45>>, <<35, 184, 372, 88>> }

\* The microseconds within the second that are tried.
FractionsTried == { 0, 1, 500, 999, 1000, 1500, 415999, 416999, 500000,
                    999000, 999998, 999999 }

LengthsTried ==
    { Norm(sec \o <<f \div 1000, f % 1000>>) :
        sec \in SecondsTried, f \in FractionsTried }

InitFmt ==
    /\ args = [command |-> "status", args |-> <<>>, service |-> 0,
               verbose |-> FALSE, commands |-> FALSE]
    /\ bus = <<>>
    /\ pc = "call"
    /\ service = NoService
    /\ status = ""
    /\ meta = NoMeta
    /\ out = <<>>
    /\ calls = <<>>
    /\ lookups = 0
    /\ uncaught = "None"
    /\ exitStatus = -1
    /\ length \in LengthsTried
    /\ result = ""

FormatLength ==
    /\ pc = "call"
    /\ result' = track_length_string(length)
    /\ pc' = "return"
    /\ UNCHANGED <<args, bus, service, status, meta, out, calls, lookups,
                   uncaught, exitStatus, length>>

NextFmt == FormatLength

SpecFmt == InitFmt /\ [][NextFmt]_vars

\* ------------------------------------------------------------------------
\* Properties
\* ------------------------------------------------------------------------

Range(f) == { f[i] : i \in DOMAIN f }

Last(f) == f[Len(f)]

\* The services a lookup discovers, and whether the lookup returned.
Discovered == get_services(bus)

LookupReturned == calls # <<>> /\ calls[1].op = "ListNames" /\ calls[1].err = <<>>

CallsOf(ops) == { i \in DOMAIN calls : calls[i].op \in ops }

\* The calls that raised, probes of the optional interfaces aside.
HardFailures == { i \in DOMAIN calls : calls[i].err # <<>> /\ calls[i].op \notin ProbeOps }

Selecting == ~args.commands /\ args.command # "services"

\* The duration string the documentation describes, in exact integer
\* arithmetic (floor(length / 60000000) is floor(floor(length / 10^6) / 60)).
ReferenceString(len) ==
    LET us      == BigDivMod(len, 1000).r
        ms      == BigDivMod(BigDivMod(len, 1000).q, 1000).r
        secs    == BigDivMod(len, 1000000).q
        minutes == BigDivMod(secs, 60).q
        seconds == BigDivMod(secs, 60).r
    IN  IF us # 0
        THEN FmtBig(minutes) \o ":" \o Fmt02d(seconds) \o "." \o Fmt03d(ms) \o Fmt03d(us)
        ELSE IF ms # 0
        THEN FmtBig(minutes) \o ":" \o Fmt02d(seconds) \o "." \o Fmt03d(ms)
        ELSE FmtBig(minutes) \o ":" \o Fmt02d(seconds)

\* C1: for every non-negative length, track_length_string(length) is the
\* reference string M:SS[.mmm[uuu]] computed with floor divisions.
C1_MatchesReference ==
    pc = "return" => result = ReferenceString(length)

\* C2: with --commands unset and a command other than "services", a service
\* index i >= n (n discovered services) prints the selection error, exits 1,
\* and never binds a Player Handle nor issues any call to a player.
C2_IndexBeyondListFails ==
    (Selecting /\ args.service >= Len(Discovered)) =>
        /\ service = NoService
        /\ \A i \in DOMAIN calls : calls[i].op = "ListNames"
        /\ (pc = "done" /\ LookupReturned) =>
               /\ out = <<SelectionError(args.service)>>
               /\ exitStatus = 1
               /\ uncaught = "None"

C2_Witness ==
    /\ Selecting
    /\ Len(Discovered) = 1
    /\ args.service = 1
    /\ pc = "done"
    /\ out = <<"MPRIS2 service no. 1 not found.">>
    /\ exitStatus = 1

OpenMessages(svc) == {UnsupportedOpen(svc)} \cup { UnexpectedError(e) : e \in DBusErrors }

\* C3: when OpenUri fails, an "unknown method" error prints the dedicated
\* message naming the service, any other error prints the generic message with
\* the detail; either way exit 1, exactly one of the two messages is printed
\* and OpenUri is called once.
C3_OpenFailureReported ==
    \A i \in DOMAIN calls :
        (calls[i].op = "OpenUri" /\ calls[i].err # <<>>) =>
            /\ pc = "done"
            /\ exitStatus = 1
            /\ uncaught = "None"
            /\ CallsOf({"OpenUri"}) = {i}
            /\ i = Len(calls)
            /\ Cardinality({ k \in DOMAIN out : out[k] \in OpenMessages(service) }) = 1
            /\ Last(out) = IF Last(calls[i].err) = "UnknownMethod"
                           THEN UnsupportedOpen(service)
                           ELSE UnexpectedError(calls[i].err)

C3_Witness ==
    /\ pc = "done"
    /\ calls # <<>>
    /\ Last(calls) = [op |-> "OpenUri", err |-> ErrUnknownMethod]
    /\ service.name = mpris_base \o <<"vlc">>
    /\ Last(out) = "Error: Service org.mpris.MediaPlayer2.vlc does not support opening URIs via MPRIS2."
    /\ exitStatus = 1

\* C4: with --commands set, whatever the other arguments, the invocation
\* prints the catalogue and exits 0 with no lookup, no handle and no call.
C4_CommandsBypassesEverything ==
    args.commands =>
        /\ pc \in {"start", "done"}
        /\ calls = <<>>
        /\ lookups = 0
        /\ service = NoService
        /\ pc = "done" => (out = Catalogue /\ exitStatus = 0 /\ uncaught = "None")

C4_Witness ==
    /\ args.commands
    /\ args.command = "rewind"
    /\ args.verbose
    /\ args.service = -1
    /\ pc = "done"
    /\ out = Catalogue
    /\ exitStatus = 0

\* The status command read a status that is neither Playing nor Paused.
OtherStatusShown ==
    /\ pc = "done"
    /\ ~args.commands
    /\ args.command = "status"
    /\ status \notin {"", "Playing", "Paused"}

\* C5 as stated: on such a status the whole output is the raw status token, for
\* every verbosity, and neither Metadata nor Position is read (here for the
\* non-negative service indices).
C5_WholeOutputIsStatusToken ==
    (OtherStatusShown /\ args.service >= 0) =>
        /\ out = <<status>>
        /\ CallsOf({"Get Metadata", "Get Position"}) = {}

\* C5 amended: the status branch prints the raw status token alone and reads
\* neither Metadata nor Position; the whole output is the token when not
\* verbose, and the three lines on the selected service, then the token, when
\* verbose.
C5_StatusTokenAfterVerboseLines ==
    OtherStatusShown =>
        /\ out = (IF args.verbose THEN VerboseLines(service) ELSE <<>>) \o <<status>>
        /\ CallsOf({"Get Metadata", "Get Position"}) = {}
        /\ exitStatus = 0

C5_Witness ==
    /\ OtherStatusShown
    /\ args.verbose
    /\ status = "Stopped"
    /\ Len(out) = 4
    /\ out[4] = "Stopped"

UnknownWord == ~args.commands /\ args.command \notin (KnownCommands \cup {"services"})

\* C6 as stated: an unknown command word prints the "unknown command"
\* message and exits 1, whatever the index and the discovered services (here
\* for the non-negative indices, when no remote call failed).
C6_UnknownCommandAlwaysNamed ==
    (pc = "done" /\ UnknownWord /\ HardFailures = {} /\ args.service >= 0) =>
        /\ UnknownCommand(args.command) \in Range(out)
        /\ exitStatus = 1

\* C6 amended: an unknown command word always exits 1; the "unknown command"
\* message naming the word is printed, last, when a Player Handle was made for
\* the index, and when the index selects no discovered service the selection
\* error is the whole output instead.
C6_UnknownCommandAfterSelection ==
    (pc = "done" /\ UnknownWord) =>
        /\ exitStatus = 1
        /\ service.bound =>
               /\ Last(out) = UnknownCommand(args.command)
               /\ uncaught = "None"
        /\ (~service.bound /\ HardFailures = {}) =>
               out = <<SelectionError(args.service)>>
        /\ ~service.bound => UnknownCommand(args.command) \notin Range(out)

C6_Witness ==
    /\ pc = "done"
    /\ UnknownWord
    /\ service.bound
    /\ Last(out) = "unknown command: rewind"
    /\ exitStatus = 1

\* C7 as stated: at most one service lookup and at most two remote calls to
\* the player per invocation (here for the non-negative service indices).
C7_AtMostTwoPlayerCalls ==
    args.service >= 0 =>
        /\ lookups <= 1
        /\ Cardinality(CallsOf(PlayerOps)) <= 2

\* C7 amended: at most one service lookup and at most five remote calls to
\* the player (two probes and the three reads of status); at most three for
\* every command other than status.
C7_AtMostFivePlayerCalls ==
    /\ lookups <= 1
    /\ Cardinality(CallsOf({"ListNames"})) <= 1
    /\ Cardinality(CallsOf(PlayerOps)) <= 5
    /\ args.command # "status" => Cardinality(CallsOf(PlayerOps)) <= 3

C7_Witness ==
    /\ pc = "done"
    /\ lookups = 1
    /\ Cardinality(CallsOf(PlayerOps)) = 5

\* The exit status the command alone accounts for: 1 for an unknown word, an
\* open without URI or a failed call other than a probe, else 0.
ExitWithoutProbes ==
    IF \/ args.command \notin KnownCommands
       \/ args.command = "open" /\ args.args = <<>>
       \/ HardFailures # {}
    THEN 1 ELSE 0

\* C8: each optional interface is probed with exactly one property read; a
\* failed probe makes that interface alone absent, is not reported as an
\* error, and does not abort: the command is dispatched and the exit status
\* is what it is without the probe failures.
C8_ProbeFailuresAreSoft ==
    /\ Cardinality(CallsOf({"Get PlaylistCount"})) <= 1
    /\ Cardinality(CallsOf({"Get CanEditTracks"})) <= 1
    /\ (service.bound /\ pc # "probe_playlists") =>
           \E i \in CallsOf({"Get PlaylistCount"}) :
               service.playlists = (calls[i].err = <<>>)
    /\ (service.bound /\ pc \notin {"probe_playlists", "probe_tracklist"}) =>
           \E i \in CallsOf({"Get CanEditTracks"}) :
               service.tracklist = (calls[i].err = <<>>)
    /\ (service.bound /\ pc = "done") =>
           /\ exitStatus = ExitWithoutProbes
           /\ (HardFailures = {} /\ ~(args.command = "open" /\ args.args = <<>>))
                  => uncaught = "None"
           /\ HardFailures = {} => Range(out) \cap OpenMessages(service) = {}

C8_Witness ==
    /\ pc = "done"
    /\ args.command = "play"
    /\ service.bound
    /\ ~service.playlists
    /\ ~service.tracklist
    /\ calls[3].err # <<>>
    /\ calls[4].err # <<>>
    /\ Last(calls) = [op |-> "Play", err |-> <<>>]
    /\ exitStatus = 0

\* C9: a Player Handle is made only for an index 0 <= i < n; a negative index
\* prints the selection error, exits 1, and binds and calls no service.
C9_NegativeIndexRejected ==
    (Selecting /\ args.service < 0) =>
        /\ service = NoService
        /\ \A i \in DOMAIN calls : calls[i].op = "ListNames"
        /\ (pc = "done" /\ LookupReturned) =>
               /\ out = <<SelectionError(args.service)>>
               /\ exitStatus = 1

\* C10: a remote failure other than a probe failure is terminal and is not
\* retried: the failed call is the last call of the invocation, which has
\* ended with a non-zero exit status.
C10_FailureIsTerminal ==
    \A i \in HardFailures :
        /\ i = Len(calls)
        /\ pc = "done"
        /\ exitStatus > 0

C10_Witness ==
    /\ pc = "done"
    /\ Len(calls) = 6
    /\ calls[5] = [op |-> "Get PlaybackStatus", err |-> <<>>]
    /\ calls[6] = [op |-> "Get Metadata", err |-> ErrNoReply]
    /\ exitStatus = 1
    /\ uncaught = "DBusException"

====
